---- MODULE Spec2Model ----
(***************************************************************************)
(* Model of the Tauri command layer of claudeditor/src-tauri/src/main.rs:  *)
(* the AppState mutexes and the commands initialize_powerautomation,       *)
(* create_project, get_projects, get_mcp_services, discover_mcp_tools and  *)
(* get_ai_agents, run by several callers in parallel.  Every command is    *)
(* split at its lock acquisitions and at its await points.                 *)
(***************************************************************************)
EXTENDS Integers, FiniteSets, Sequences, TLC

\* ---- bounds -------------------------------------------------------------
NumProcs == 2
MaxCalls == 3

Procs == 1..NumProcs
None == 0
Providers == {"p1", "p2"}
Paths == {"/w"}

Commands == {"initialize_powerautomation", "create_project", "get_projects",
             "get_mcp_services", "discover_mcp_tools", "get_ai_agents"}

LockNames == {"powerautomation_core", "mcp_coordinator", "projects",
              "mcp_services", "ai_agents"}

VARIABLES
    projects,              \* AppState.projects: id -> Project
    mcp_services,          \* AppState.mcp_services: id -> MCPService
    ai_agents,             \* AppState.ai_agents: id -> AIAgent
    mcp_coordinator,       \* AppState.mcp_coordinator: None or an instance
    powerautomation_core,  \* AppState.powerautomation_core: None or an instance
    lock,                  \* holder of each Mutex of AppState (None = free)
    cmd,                   \* the command each caller is running
    pc,                    \* each caller's position in its command
    result,                \* the Result each caller's command returned
    core,                  \* local `core` of initialize_powerautomation
    coordinator,           \* local `coordinator` of initialize_powerautomation
    project,               \* local `project` of create_project
    coreBuilt,             \* number of PowerAutomationCore instances constructed
    coordBuilt,            \* number of MCPCoordinator instances constructed
    uuids,                 \* number of Uuid::new_v4() values drawn
    calls,                 \* number of commands invoked so far
    before,                \* history: the two slots when the call took both locks
    conc,                  \* history: initialize calls in flight when the call began
    initSucceeded,         \* history: some initialize reached its Ok return
    failedCreates          \* history: ids of projects whose creation returned Err

vars == <<projects, mcp_services, ai_agents, mcp_coordinator,
          powerautomation_core, lock, cmd, pc, result, core, coordinator,
          project, coreBuilt, coordBuilt, uuids, calls, before, conc,
          initSucceeded, failedCreates>>

state == <<projects, mcp_services, ai_agents, mcp_coordinator, powerautomation_core>>
locals == <<core, coordinator, project>>
counters == <<coreBuilt, coordBuilt, uuids>>
history == <<before, conc, initSucceeded, failedCreates>>

\* ---- results ------------------------------------------------------------
Pending == [ok |-> FALSE, msg |-> "pending", val |-> {}]
Ok(m, v) == [ok |-> TRUE, msg |-> m, val |-> v]
Err(m) == [ok |-> FALSE, msg |-> m, val |-> {}]

NoProject == [id |-> 0, path |-> ""]
NoSlots == <<None, None>>

FirstPc(c) ==
    CASE c = "initialize_powerautomation" -> "i_lock_core"
      [] c = "create_project" -> "c_build"
      [] c = "get_projects" -> "gp_lock"
      [] c = "get_mcp_services" -> "gs_lock"
      [] c = "discover_mcp_tools" -> "d_lock"
      [] c = "get_ai_agents" -> "ga_lock"

Running(p) == pc[p] \notin {"idle", "done"}

\* HashMap::values().cloned().collect(): the stored values, in no fixed order
Values(m) == {m[k] : k \in DOMAIN m}

Acquire(l, p) == lock' = [lock EXCEPT ![l] = p]
Release(l) == lock' = [lock EXCEPT ![l] = None]

\* ---- AppState::default() --------------------------------------------------
Init ==
    /\ projects = <<>>
    /\ mcp_services = <<>>
    /\ ai_agents = <<>>
    /\ mcp_coordinator = None
    /\ powerautomation_core = None
    /\ lock = [l \in LockNames |-> None]
    /\ cmd = [p \in Procs |-> "none"]
    /\ pc = [p \in Procs |-> "idle"]
    /\ result = [p \in Procs |-> Pending]
    /\ core = [p \in Procs |-> None]
    /\ coordinator = [p \in Procs |-> None]
    /\ project = [p \in Procs |-> NoProject]
    /\ coreBuilt = 0
    /\ coordBuilt = 0
    /\ uuids = 0
    /\ calls = 0
    /\ before = [p \in Procs |-> NoSlots]
    /\ conc = [p \in Procs |-> {}]
    /\ initSucceeded = FALSE
    /\ failedCreates = {}

\* ---- the shell invokes a command (generate_handler!) ---------------------
Invoke(p, c) ==
    /\ pc[p] \in {"idle", "done"}
    /\ calls < MaxCalls
    /\ calls' = calls + 1
    /\ cmd' = [cmd EXCEPT ![p] = c]
    /\ pc' = [pc EXCEPT ![p] = FirstPc(c)]
    /\ result' = [result EXCEPT ![p] = Pending]
    /\ core' = [core EXCEPT ![p] = None]
    /\ coordinator' = [coordinator EXCEPT ![p] = None]
    /\ project' = [project EXCEPT ![p] = NoProject]
    /\ before' = [before EXCEPT ![p] = NoSlots]
    /\ conc' = [q \in Procs |->
                  IF q = p
                  THEN IF c = "initialize_powerautomation"
                       THEN {r \in Procs \ {p} :
                               cmd[r] = "initialize_powerautomation" /\ Running(r)}
                       ELSE {}
                  ELSE conc[q] \ {p}]
    /\ UNCHANGED <<state, lock, counters, initSucceeded, failedCreates>>

\* ---- initialize_powerautomation -------------------------------------------
\* line 65: state.powerautomation_core.lock().unwrap()
InitLockCore(p) ==
    /\ pc[p] = "i_lock_core"
    /\ lock["powerautomation_core"] = None
    /\ Acquire("powerautomation_core", p)
    /\ pc' = [pc EXCEPT ![p] = "i_lock_mcp"]
    /\ UNCHANGED <<state, cmd, result, locals, counters, calls, history>>

\* line 66: state.mcp_coordinator.lock().unwrap()
InitLockMcp(p) ==
    /\ pc[p] = "i_lock_mcp"
    /\ lock["mcp_coordinator"] = None
    /\ Acquire("mcp_coordinator", p)
    /\ pc' = [pc EXCEPT ![p] = "i_core_new"]
    /\ before' = [before EXCEPT ![p] = <<powerautomation_core, mcp_coordinator>>]
    /\ UNCHANGED <<state, cmd, result, locals, counters, calls, conc,
                   initSucceeded, failedCreates>>

\* variant of InitCoreNew: the core is stored in its slot as soon as it is built
InitCoreNew_publishEarly(p) ==
    /\ pc[p] = "i_core_new"
    /\ \E okNew \in BOOLEAN :
         IF okNew
         THEN /\ coreBuilt' = coreBuilt + 1
              /\ core' = [core EXCEPT ![p] = coreBuilt + 1]
              /\ powerautomation_core' = coreBuilt + 1
              /\ pc' = [pc EXCEPT ![p] = "i_coord_new"]
              /\ UNCHANGED result
         ELSE /\ result' = [result EXCEPT ![p] = Err("AutomationCoreFailed")]
              /\ pc' = [pc EXCEPT ![p] = "i_drop_mcp"]
              /\ UNCHANGED <<coreBuilt, core, powerautomation_core>>
    /\ UNCHANGED <<projects, mcp_services, ai_agents, mcp_coordinator, lock,
                   cmd, coordinator, project, coordBuilt, uuids, calls, history>>

\* line 69: PowerAutomationCore::new().await.map_err(..)?
InitCoreNew(p) ==
    /\ pc[p] = "i_core_new"
    /\ \E okNew \in BOOLEAN :
         IF okNew
         THEN /\ coreBuilt' = coreBuilt + 1
              /\ core' = [core EXCEPT ![p] = coreBuilt + 1]
              /\ pc' = [pc EXCEPT ![p] = "i_coord_new"]
              /\ UNCHANGED result
         ELSE /\ result' = [result EXCEPT ![p] = Err("AutomationCoreFailed")]
              /\ pc' = [pc EXCEPT ![p] = "i_drop_mcp"]
              /\ UNCHANGED <<coreBuilt, core>>
    /\ UNCHANGED <<state, lock, cmd, coordinator, project, coordBuilt, uuids,
                   calls, history>>

\* variant of InitCoordNew: a failed coordinator construction clears both slots
InitCoordNew_rollback(p) ==
    /\ pc[p] = "i_coord_new"
    /\ \E okNew \in BOOLEAN :
         IF okNew
         THEN /\ coordBuilt' = coordBuilt + 1
              /\ coordinator' = [coordinator EXCEPT ![p] = coordBuilt + 1]
              /\ pc' = [pc EXCEPT ![p] = "i_assign_core"]
              /\ UNCHANGED <<result, powerautomation_core, mcp_coordinator>>
         ELSE /\ result' = [result EXCEPT ![p] = Err("DiscoveryEngineFailed")]
              /\ pc' = [pc EXCEPT ![p] = "i_drop_mcp"]
              /\ powerautomation_core' = None
              /\ mcp_coordinator' = None
              /\ UNCHANGED <<coordBuilt, coordinator>>
    /\ UNCHANGED <<projects, mcp_services, ai_agents, lock, cmd, core, project,
                   coreBuilt, uuids, calls, history>>

\* line 70: MCPCoordinator::new().await.map_err(..)?
InitCoordNew(p) ==
    /\ pc[p] = "i_coord_new"
    /\ \E okNew \in BOOLEAN :
         IF okNew
         THEN /\ coordBuilt' = coordBuilt + 1
              /\ coordinator' = [coordinator EXCEPT ![p] = coordBuilt + 1]
              /\ pc' = [pc EXCEPT ![p] = "i_assign_core"]
              /\ UNCHANGED result
         ELSE /\ result' = [result EXCEPT ![p] = Err("DiscoveryEngineFailed")]
              /\ pc' = [pc EXCEPT ![p] = "i_drop_mcp"]
              /\ UNCHANGED <<coordBuilt, coordinator>>
    /\ UNCHANGED <<state, lock, cmd, core, project, coreBuilt, uuids, calls,
                   history>>

\* line 72: *core_guard = Some(core)
InitAssignCore(p) ==
    /\ pc[p] = "i_assign_core"
    /\ powerautomation_core' = core[p]
    /\ pc' = [pc EXCEPT ![p] = "i_assign_mcp"]
    /\ UNCHANGED <<projects, mcp_services, ai_agents, mcp_coordinator, lock,
                   cmd, result, locals, counters, calls, history>>

\* variant of InitAssignMcp: the coordinator is never stored in its slot
InitAssignMcp_skip(p) ==
    /\ pc[p] = "i_assign_mcp"
    /\ result' = [result EXCEPT ![p] =
                     Ok("PowerAutomation initialized successfully", {})]
    /\ initSucceeded' = TRUE
    /\ pc' = [pc EXCEPT ![p] = "i_drop_mcp"]
    /\ UNCHANGED <<state, lock, cmd, locals, counters, calls, before, conc,
                   failedCreates>>

\* lines 73-76: *mcp_guard = Some(coordinator); Ok(..)
InitAssignMcp(p) ==
    /\ pc[p] = "i_assign_mcp"
    /\ mcp_coordinator' = coordinator[p]
    /\ result' = [result EXCEPT ![p] =
                     Ok("PowerAutomation initialized successfully", {})]
    /\ initSucceeded' = TRUE
    /\ pc' = [pc EXCEPT ![p] = "i_drop_mcp"]
    /\ UNCHANGED <<projects, mcp_services, ai_agents, powerautomation_core,
                   lock, cmd, locals, counters, calls, before, conc,
                   failedCreates>>

\* end of scope: mcp_guard is dropped first (reverse declaration order)
InitDropMcp(p) ==
    /\ pc[p] = "i_drop_mcp"
    /\ Release("mcp_coordinator")
    /\ pc' = [pc EXCEPT ![p] = "i_drop_core"]
    /\ UNCHANGED <<state, cmd, result, locals, counters, calls, history>>

\* end of scope: core_guard is dropped, the command returns
InitDropCore(p) ==
    /\ pc[p] = "i_drop_core"
    /\ Release("powerautomation_core")
    /\ pc' = [pc EXCEPT ![p] = "done"]
    /\ UNCHANGED <<state, cmd, result, locals, counters, calls, history>>

\* ---- create_project ---------------------------------------------------------
\* HashMap::insert: replace-or-insert under the key
Insert(m, k, v) == [x \in DOMAIN m \cup {k} |-> IF x = k THEN v ELSE m[x]]

\* lines 88-96: the Project value, with a fresh Uuid::new_v4()
CreateBuild(p) ==
    /\ pc[p] = "c_build"
    /\ \E path \in Paths :
         project' = [project EXCEPT ![p] = [id |-> uuids + 1, path |-> path]]
    /\ uuids' = uuids + 1
    /\ pc' = [pc EXCEPT ![p] = "c_lock"]
    /\ UNCHANGED <<state, lock, cmd, result, core, coordinator, coreBuilt,
                   coordBuilt, calls, history>>

\* line 98: state.projects.lock().unwrap()
CreateLock(p) ==
    /\ pc[p] = "c_lock"
    /\ lock["projects"] = None
    /\ Acquire("projects", p)
    /\ pc' = [pc EXCEPT ![p] = "c_insert"]
    /\ UNCHANGED <<state, cmd, result, locals, counters, calls, history>>

\* line 99: projects.insert(project.id.clone(), project.clone())
CreateInsert(p) ==
    /\ pc[p] = "c_insert"
    /\ projects' = Insert(projects, project[p].id, project[p])
    /\ pc' = [pc EXCEPT ![p] = "c_mkdir"]
    /\ UNCHANGED <<mcp_services, ai_agents, mcp_coordinator,
                   powerautomation_core, lock, cmd, result, locals, counters,
                   calls, history>>

\* variant of CreateMkdir: a failed directory creation removes the insert again
CreateMkdir_rollback(p) ==
    /\ pc[p] = "c_mkdir"
    /\ \E okDir \in BOOLEAN :
         IF okDir
         THEN /\ result' = [result EXCEPT ![p] = Ok("", {project[p]})]
              /\ UNCHANGED <<failedCreates, projects>>
         ELSE /\ result' = [result EXCEPT ![p] =
                               Err("Failed to create project directory")]
              /\ failedCreates' = failedCreates \cup {project[p].id}
              /\ projects' = [k \in DOMAIN projects \ {project[p].id} |->
                                projects[k]]
    /\ Release("projects")
    /\ pc' = [pc EXCEPT ![p] = "done"]
    /\ UNCHANGED <<mcp_services, ai_agents, mcp_coordinator,
                   powerautomation_core, cmd, locals, counters, calls, before,
                   conc, initSucceeded>>

\* lines 102-108: std::fs::create_dir_all(&path); Err(..) or Ok(project);
\* the projects guard is dropped on either return
CreateMkdir(p) ==
    /\ pc[p] = "c_mkdir"
    /\ \E okDir \in BOOLEAN :
         IF okDir
         THEN /\ result' = [result EXCEPT ![p] = Ok("", {project[p]})]
              /\ UNCHANGED failedCreates
         ELSE /\ result' = [result EXCEPT ![p] =
                               Err("Failed to create project directory")]
              /\ failedCreates' = failedCreates \cup {project[p].id}
    /\ Release("projects")
    /\ pc' = [pc EXCEPT ![p] = "done"]
    /\ UNCHANGED <<state, cmd, locals, counters, calls, before, conc,
                   initSucceeded>>

\* ---- get_projects -----------------------------------------------------------
\* line 113: state.projects.lock().unwrap()
GetProjectsLock(p) ==
    /\ pc[p] = "gp_lock"
    /\ lock["projects"] = None
    /\ Acquire("projects", p)
    /\ pc' = [pc EXCEPT ![p] = "gp_read"]
    /\ UNCHANGED <<state, cmd, result, locals, counters, calls, history>>

\* line 114: Ok(projects.values().cloned().collect())
GetProjectsRead(p) ==
    /\ pc[p] = "gp_read"
    /\ result' = [result EXCEPT ![p] = Ok("", Values(projects))]
    /\ Release("projects")
    /\ pc' = [pc EXCEPT ![p] = "done"]
    /\ UNCHANGED <<state, cmd, locals, counters, calls, history>>

\* ---- get_mcp_services -------------------------------------------------------
\* line 119: state.mcp_services.lock().unwrap()
GetMcpServicesLock(p) ==
    /\ pc[p] = "gs_lock"
    /\ lock["mcp_services"] = None
    /\ Acquire("mcp_services", p)
    /\ pc' = [pc EXCEPT ![p] = "gs_read"]
    /\ UNCHANGED <<state, cmd, result, locals, counters, calls, history>>

\* variant of GetMcpServicesRead: an error while no coordinator is stored
GetMcpServicesRead_requiresInit(p) ==
    /\ pc[p] = "gs_read"
    /\ result' = [result EXCEPT ![p] =
                     IF mcp_coordinator = None
                     THEN Err("MCP Coordinator not initialized")
                     ELSE Ok("", Values(mcp_services))]
    /\ Release("mcp_services")
    /\ pc' = [pc EXCEPT ![p] = "done"]
    /\ UNCHANGED <<state, cmd, locals, counters, calls, history>>

\* line 120: Ok(services.values().cloned().collect())
GetMcpServicesRead(p) ==
    /\ pc[p] = "gs_read"
    /\ result' = [result EXCEPT ![p] = Ok("", Values(mcp_services))]
    /\ Release("mcp_services")
    /\ pc' = [pc EXCEPT ![p] = "done"]
    /\ UNCHANGED <<state, cmd, locals, counters, calls, history>>

\* ---- get_ai_agents ----------------------------------------------------------
\* line 137: state.ai_agents.lock().unwrap()
GetAiAgentsLock(p) ==
    /\ pc[p] = "ga_lock"
    /\ lock["ai_agents"] = None
    /\ Acquire("ai_agents", p)
    /\ pc' = [pc EXCEPT ![p] = "ga_read"]
    /\ UNCHANGED <<state, cmd, result, locals, counters, calls, history>>

\* line 138: Ok(agents.values().cloned().collect())
GetAiAgentsRead(p) ==
    /\ pc[p] = "ga_read"
    /\ result' = [result EXCEPT ![p] = Ok("", Values(ai_agents))]
    /\ Release("ai_agents")
    /\ pc' = [pc EXCEPT ![p] = "done"]
    /\ UNCHANGED <<state, cmd, locals, counters, calls, history>>

\* ---- discover_mcp_tools -----------------------------------------------------
\* line 127: state.mcp_coordinator.lock().unwrap()
DiscLock(p) ==
    /\ pc[p] = "d_lock"
    /\ lock["mcp_coordinator"] = None
    /\ Acquire("mcp_coordinator", p)
    /\ pc' = [pc EXCEPT ![p] = "d_check"]
    /\ UNCHANGED <<state, cmd, result, locals, counters, calls, history>>

\* variant of DiscCheck: the check also takes the core lock
DiscCheck_needsCore(p) ==
    /\ pc[p] = "d_check"
    /\ lock["powerautomation_core"] = None
    /\ Acquire("powerautomation_core", p)
    /\ IF mcp_coordinator # None
       THEN /\ pc' = [pc EXCEPT ![p] = "d_await"]
            /\ UNCHANGED result
       ELSE /\ result' = [result EXCEPT ![p] =
                             Err("MCP Coordinator not initialized")]
            /\ pc' = [pc EXCEPT ![p] = "d_drop"]
    /\ UNCHANGED <<state, cmd, locals, counters, calls, history>>

\* lines 128, 130-131: if let Some(coordinator) = mcp_guard.as_ref() .. else Err
DiscCheck(p) ==
    /\ pc[p] = "d_check"
    /\ IF mcp_coordinator # None
       THEN /\ pc' = [pc EXCEPT ![p] = "d_await"]
            /\ UNCHANGED result
       ELSE /\ result' = [result EXCEPT ![p] =
                             Err("MCP Coordinator not initialized")]
            /\ pc' = [pc EXCEPT ![p] = "d_drop"]
    /\ UNCHANGED <<state, lock, cmd, locals, counters, calls, history>>

\* line 129: coordinator.discover_tools().await.map_err(..): the probe ends
\* with the tools of the providers it reached, or with its own error; it is
\* given &self only and so has no access to AppState
DiscAwait(p) ==
    /\ pc[p] = "d_await"
    /\ \/ \E tools \in SUBSET Providers :
            result' = [result EXCEPT ![p] = Ok("", tools)]
       \/ result' = [result EXCEPT ![p] = Err("discover_tools failed")]
    /\ pc' = [pc EXCEPT ![p] = "d_drop"]
    /\ UNCHANGED <<state, lock, cmd, locals, counters, calls, history>>

\* line 133: mcp_guard is dropped, the command returns
DiscDrop(p) ==
    /\ pc[p] = "d_drop"
    /\ Release("mcp_coordinator")
    /\ pc' = [pc EXCEPT ![p] = "done"]
    /\ UNCHANGED <<state, cmd, result, locals, counters, calls, history>>

\* ---- the system ---------------------------------------------------------------
Step(p) ==
    \/ InitLockCore(p) \/ InitLockMcp(p) \/ InitCoreNew(p) \/ InitCoordNew(p)
    \/ InitAssignCore(p) \/ InitAssignMcp(p) \/ InitDropMcp(p) \/ InitDropCore(p)
    \/ CreateBuild(p) \/ CreateLock(p) \/ CreateInsert(p) \/ CreateMkdir(p)
    \/ GetProjectsLock(p) \/ GetProjectsRead(p)
    \/ GetMcpServicesLock(p) \/ GetMcpServicesRead(p)
    \/ GetAiAgentsLock(p) \/ GetAiAgentsRead(p)
    \/ DiscLock(p) \/ DiscCheck(p) \/ DiscAwait(p) \/ DiscDrop(p)

Next ==
    \E p \in Procs :
        \/ \E c \in Commands : Invoke(p, c)
        \/ Step(p)

Spec == Init /\ [][Next]_vars

\* ---- properties ----------------------------------------------------------------
IsInit(p) == cmd[p] = "initialize_powerautomation"
IsDiscover(p) == cmd[p] = "discover_mcp_tools"
HeldBy(p) == {l \in LockNames : lock[l] = p}
Slots == <<powerautomation_core, mcp_coordinator>>
NotInitialized == Err("MCP Coordinator not initialized")

\* C1: of two initialize calls that were in flight together, at most one
\* constructs a PowerAutomationCore, at most one constructs an MCPCoordinator,
\* and both return the same success/failure outcome.
C1_SingleConstruction ==
    \A p \in Procs : \A q \in conc[p] :
        (IsInit(p) /\ IsInit(q) /\ pc[p] = "done" /\ pc[q] = "done") =>
            /\ Cardinality({r \in {p, q} : core[r] # None}) <= 1
            /\ Cardinality({r \in {p, q} : coordinator[r] # None}) <= 1
            /\ result[p].ok = result[q].ok

\* C2: an initialize call that finds both slots populated when it enters
\* constructs neither a core nor a coordinator, returns success, and leaves
\* both slots holding the instances they held.
C2_IdempotentReentry ==
    \A p \in Procs :
        (IsInit(p) /\ before[p][1] # None /\ before[p][2] # None) =>
            /\ core[p] = None
            /\ coordinator[p] = None
            /\ pc[p] \in {"i_drop_mcp", "i_drop_core"} =>
                   (result[p].ok /\ Slots = before[p])

\* C3: a discover that inspects the coordinator slot fails with the
\* not-initialized error exactly when no initialize has succeeded so far, and
\* the coordinator slot, once populated, never goes back to empty.
C3_DiscoverOrdering ==
    [][ /\ \A p \in Procs :
             (pc[p] = "d_check" /\ pc'[p] # "d_check") =>
                 ((result'[p] = NotInitialized) <=> ~initSucceeded)
        /\ (mcp_coordinator # None => mcp_coordinator' # None) ]_vars

C3_Witness ==
    \E p, q \in Procs :
        /\ IsDiscover(p) /\ pc[p] = "done" /\ result[p] = NotInitialized
        /\ IsDiscover(q) /\ pc[q] = "done" /\ result[q].ok
        /\ initSucceeded

\* C4: an initialize call that fails leaves both slots holding what they held
\* when the call entered; after a core failure it has constructed nothing,
\* after a coordinator failure it has constructed a core that is in no slot;
\* and a call that has returned holds no lock, so a later call can run again.
C4_FailedInitPublishesNothing ==
    \A p \in Procs :
        /\ (IsInit(p) /\ pc[p] \in {"i_drop_mcp", "i_drop_core"} /\ ~result[p].ok) =>
               /\ Slots = before[p]
               /\ coordinator[p] = None
               /\ result[p].msg = "AutomationCoreFailed" => core[p] = None
               /\ result[p].msg = "DiscoveryEngineFailed" =>
                      (core[p] # None /\ powerautomation_core # core[p])
        /\ pc[p] = "done" => HeldBy(p) = {}

C4_Witness ==
    \E p \in Procs :
        /\ IsInit(p) /\ pc[p] = "i_drop_core"
        /\ result[p].msg = "DiscoveryEngineFailed"
        /\ before[p][1] # None

\* C5: whenever the core lock or the coordinator lock is free, the core slot
\* is populated if and only if the coordinator slot is populated.
C5_NeverHalfBuilt ==
    (lock["powerautomation_core"] = None \/ lock["mcp_coordinator"] = None) =>
        ((powerautomation_core # None) <=> (mcp_coordinator # None))

C5_Witness ==
    /\ powerautomation_core # None
    /\ mcp_coordinator = None
    /\ \E p \in Procs : pc[p] = "i_assign_mcp"

\* C6: after a discover has succeeded with a non-empty result, mcp_services
\* holds an entry under the id of every provider in that result.
C6_DiscoverFillsRegistry ==
    \A p \in Procs :
        (IsDiscover(p) /\ pc[p] \in {"d_drop", "done"} /\ result[p].ok
           /\ result[p].val # {}) =>
            result[p].val \subseteq DOMAIN mcp_services

\* C7: a discover that is awaiting discover_tools holds no AppState lock.
C7_NoLockAcrossProbe ==
    \A p \in Procs : pc[p] = "d_await" => HeldBy(p) = {}

\* C8: get_mcp_services always returns Ok with a copy of the current entries
\* of mcp_services (the empty collection while nothing is recorded), and its
\* lock is only ever held by a get_mcp_services call that is about to return.
C8_ListServicesNeverFails ==
    /\ [](\A p \in Procs :
            /\ (cmd[p] = "get_mcp_services" /\ pc[p] = "done") => result[p].ok
            /\ lock["mcp_services"] = p =>
                   (cmd[p] = "get_mcp_services" /\ pc[p] = "gs_read"))
    /\ [][\A p \in Procs :
            (pc[p] = "gs_read" /\ pc'[p] = "done") =>
                /\ result'[p] = Ok("", Values(mcp_services))
                /\ mcp_services = <<>> => result'[p].val = {}]_vars

C8_Witness ==
    \E p, q \in Procs :
        /\ cmd[p] = "get_mcp_services" /\ pc[p] = "done" /\ result[p].ok
        /\ pc[q] = "done" /\ ~result[q].ok

\* C9: initialize holds the coordinator lock only while it holds the core
\* lock, every other command holds at most one lock, and whenever some
\* command is running, some running command can take a step.
C9_NoLockDeadlock ==
    /\ \A p \in Procs :
          /\ (IsInit(p) /\ lock["mcp_coordinator"] = p) =>
                 lock["powerautomation_core"] = p
          /\ ~IsInit(p) => Cardinality(HeldBy(p)) <= 1
    /\ (\E p \in Procs : Running(p)) =>
           (\E p \in Procs : Running(p) /\ ENABLED Step(p))

C9_Witness ==
    \E p, q \in Procs :
        /\ IsInit(p) /\ pc[p] = "i_lock_mcp"
        /\ IsDiscover(q) /\ pc[q] = "d_await"
        /\ lock["mcp_coordinator"] = q

\* C10: create_project has inserted its project when it creates the directory,
\* a project whose creation returned an error stays in the projects registry,
\* and every get_projects returns it.
C10_FailedCreateStaysRegistered ==
    /\ [](/\ failedCreates \subseteq DOMAIN projects
          /\ \A p \in Procs :
                pc[p] = "c_mkdir" => project[p].id \in DOMAIN projects)
    /\ [][\A p \in Procs :
            (pc[p] = "gp_read" /\ pc'[p] = "done") =>
                failedCreates \subseteq {v.id : v \in result'[p].val}]_vars

C10_Witness ==
    \E p, q \in Procs :
        /\ cmd[p] = "create_project" /\ pc[p] = "done" /\ ~result[p].ok
        /\ cmd[q] = "get_projects" /\ pc[q] = "done"
        /\ project[p] \in result[q].val

====
